---- MODULE Spec2Model ----
(***************************************************************************)
(* A model of reparser: the regex-based lexer/parser for inline markup.    *)
(*                                                                         *)
(* A text is a sequence of one-character strings; offsets are 0-based as   *)
(* in Python, so the character at offset i is text[i+1] and text[a:b] is   *)
(* Slice(text, a, b).  Regular expressions are syntax trees interpreted by *)
(* a backtracking matcher that lists the ways a pattern can match in the   *)
(* order Python's re module tries them.                                    *)
(***************************************************************************)
EXTENDS Integers, Sequences, FiniteSets, TLC

(***************************************************************************)
(* Python values: str, bool, None and MatchGroup objects.                  *)
(***************************************************************************)
Str(s) == [t |-> "str", s |-> s]

True == [t |-> "bool", b |-> TRUE]

None == [t |-> "none"]

\* MatchGroup.__init__: func is kept only when it is callable
MatchGroup(group, func) == [t |-> "mg", group |-> group, func |-> func]

NoFunc == "None"

EmptyDict == [k \in {} |-> None]

\* dict.update: the entries of d2 replace those of d1
Update(d1, d2) ==
    [k \in (DOMAIN d1) \cup (DOMAIN d2) |-> IF k \in DOMAIN d2 THEN d2[k] ELSE d1[k]]

Slice(text, a, b) == SubSeq(text, a + 1, b)

(***************************************************************************)
(* Regular expression syntax.  A top-level "alt" node is a bare            *)
(* alternation a|b of the pattern string; nested in another node it is a   *)
(* parenthesised one.                                                      *)
(***************************************************************************)
Lit(s) == [op |-> "lit", s |-> s]

Dot == [op |-> "any"]

Cls(set) == [op |-> "cls", set |-> set]

Cat(ps) == [op |-> "cat", ps |-> ps]

Alt(ps) == [op |-> "alt", ps |-> ps]

LazyPlus(p) == [op |-> "lazyplus", p |-> p]

Opt(p) == [op |-> "opt", p |-> p]

Ahead(p) == [op |-> "ahead", p |-> p]

NotAhead(p) == [op |-> "notahead", p |-> p]

Behind(p) == [op |-> "behind", p |-> p]

NotBehind(p) == [op |-> "notbehind", p |-> p]

Bol == [op |-> "bol"]

Eol == [op |-> "eol"]

Grp(name, p) == [op |-> "grp", name |-> name, p |-> p]

NoPattern == [op |-> "none"]

NoGroup == "None"

\* the concatenation of two pattern strings: a bare alternation on either
\* side takes the other side into its nearest branch
RECURSIVE Concat(_, _)
Concat(p, q) ==
    IF p.op = "alt"
    THEN Alt(SubSeq(p.ps, 1, Len(p.ps) - 1) \o <<Concat(p.ps[Len(p.ps)], q)>>)
    ELSE IF q.op = "alt"
    THEN Alt(<<Concat(p, q.ps[1])>> \o Tail(q.ps))
    ELSE Cat(<<p, q>>)

\* '(?=' + q + ')' etc. keep a bare alternation inside the parentheses
Unary(p) == p.op \in {"lazyplus", "opt", "ahead", "notahead", "behind", "notbehind", "grp"}

Nary(p) == p.op \in {"cat", "alt"}

(***************************************************************************)
(* The matcher.  A result is [e: end offset, c: captures, l: lastgroup];   *)
(* M lists the results of matching p at offset i, first choice first.      *)
(***************************************************************************)
NoCaps == [k \in {} |-> <<0, 0>>]

\* the width of a look-behind pattern, which the re module requires to be
\* fixed: the look-behind is matched that many characters back
Width(p) ==
    IF p.op = "lit" THEN Len(p.s)
    ELSE IF p.op \in {"any", "cls"} THEN 1
    ELSE 0

RECURSIVE M(_, _, _, _, _)
RECURSIVE MCat(_, _, _, _, _, _)
RECURSIVE CatFrom(_, _, _, _, _)
RECURSIVE MAlt(_, _, _, _, _, _)
RECURSIVE LazyFrom(_, _, _, _, _)

M(p, text, i, c, l) ==
    CASE p.op = "lit" ->
           IF i + Len(p.s) <= Len(text) /\ Slice(text, i, i + Len(p.s)) = p.s
           THEN <<[e |-> i + Len(p.s), c |-> c, l |-> l]>> ELSE <<>>
      [] p.op = "any" ->
           IF i < Len(text) THEN <<[e |-> i + 1, c |-> c, l |-> l]>> ELSE <<>>
      [] p.op = "cls" ->
           IF i < Len(text) /\ text[i + 1] \in p.set
           THEN <<[e |-> i + 1, c |-> c, l |-> l]>> ELSE <<>>
      [] p.op = "cat" -> MCat(p.ps, 1, text, i, c, l)
      [] p.op = "alt" -> MAlt(p.ps, 1, text, i, c, l)
      [] p.op = "lazyplus" -> LazyFrom(M(p.p, text, i, c, l), 1, p.p, text, i)
      [] p.op = "opt" -> M(p.p, text, i, c, l) \o <<[e |-> i, c |-> c, l |-> l]>>
      [] p.op = "ahead" ->
           LET rs == M(p.p, text, i, c, l)
           IN  IF rs # <<>> THEN <<[e |-> i, c |-> rs[1].c, l |-> rs[1].l]>> ELSE <<>>
      [] p.op = "notahead" ->
           IF M(p.p, text, i, c, l) = <<>> THEN <<[e |-> i, c |-> c, l |-> l]>> ELSE <<>>
      [] p.op = "behind" ->
           IF i >= Width(p.p) /\ M(p.p, text, i - Width(p.p), c, l) # <<>>
           THEN <<[e |-> i, c |-> c, l |-> l]>> ELSE <<>>
      [] p.op = "notbehind" ->
           IF i >= Width(p.p) /\ M(p.p, text, i - Width(p.p), c, l) # <<>>
           THEN <<>> ELSE <<[e |-> i, c |-> c, l |-> l]>>
      [] p.op = "bol" -> IF i = 0 THEN <<[e |-> i, c |-> c, l |-> l]>> ELSE <<>>
      [] p.op = "eol" ->
           IF i = Len(text) \/ (i = Len(text) - 1 /\ text[Len(text)] = "\n")
           THEN <<[e |-> i, c |-> c, l |-> l]>> ELSE <<>>
      [] p.op = "grp" ->
           LET rs == M(p.p, text, i, c, l)
           IN  [k \in DOMAIN rs |->
                  [e |-> rs[k].e,
                   c |-> (p.name :> <<i, rs[k].e>>) @@ rs[k].c,
                   l |-> p.name]]

MCat(ps, j, text, i, c, l) ==
    IF j > Len(ps) THEN <<[e |-> i, c |-> c, l |-> l]>>
    ELSE CatFrom(M(ps[j], text, i, c, l), 1, ps, j + 1, text)

CatFrom(rs, k, ps, j, text) ==
    IF k > Len(rs) THEN <<>>
    ELSE MCat(ps, j, text, rs[k].e, rs[k].c, rs[k].l) \o CatFrom(rs, k + 1, ps, j, text)

MAlt(ps, j, text, i, c, l) ==
    IF j > Len(ps) THEN <<>>
    ELSE M(ps[j], text, i, c, l) \o MAlt(ps, j + 1, text, i, c, l)

\* p+? : one repetition first, more only on backtracking
LazyFrom(rs, k, p, text, i) ==
    IF k > Len(rs) THEN <<>>
    ELSE <<rs[k]>>
         \o (IF rs[k].e > i
             THEN LazyFrom(M(p, text, rs[k].e, rs[k].c, rs[k].l), 1, p, text, rs[k].e)
             ELSE <<>>)
         \o LazyFrom(rs, k + 1, p, text, i)

\* the names of the groups a pattern defines (Pattern.groupindex)
RECURSIVE GroupNames(_)
GroupNames(p) ==
    IF p.op = "grp" THEN {p.name} \cup GroupNames(p.p)
    ELSE IF Unary(p) THEN GroupNames(p.p)
    ELSE IF Nary(p) THEN UNION {GroupNames(p.ps[k]) : k \in DOMAIN p.ps}
    ELSE {}

\* the number of named groups a pattern defines
RECURSIVE GroupCount(_)
RECURSIVE GroupCountFrom(_, _)
GroupCount(p) ==
    IF p.op = "grp" THEN 1 + GroupCount(p.p)
    ELSE IF Unary(p) THEN GroupCount(p.p)
    ELSE IF Nary(p) THEN GroupCountFrom(p.ps, 1)
    ELSE 0

GroupCountFrom(ps, k) ==
    IF k > Len(ps) THEN 0 ELSE GroupCount(ps[k]) + GroupCountFrom(ps, k + 1)

NoMatch == [found |-> FALSE]

\* Pattern.search from offset `from`: the leftmost match, or NoMatch
RECURSIVE Search(_, _, _)
Search(regex, text, from) ==
    IF from > Len(text) THEN NoMatch
    ELSE LET rs == M(regex, text, from, NoCaps, NoGroup)
         IN  IF rs # <<>>
             THEN [found |-> TRUE, start |-> from, end |-> rs[1].e,
                   caps |-> rs[1].c, lastgroup |-> rs[1].l]
             ELSE Search(regex, text, from + 1)

\* the next item of Pattern.finditer after a match: the scan resumes at the
\* end of the match (one further on after an empty match)
NextMatch(regex, text, m) ==
    Search(regex, text, IF m.end = m.start THEN m.end + 1 ELSE m.end)

(***************************************************************************)
(* Token                                                                   *)
(***************************************************************************)
\* GROUP_REGEX.sub: every named group ?P<g> of the pattern becomes
\* ?P<name_g>
RECURSIVE RenameGroups(_, _)
RenameGroups(name, p) ==
    IF p.op = "grp" THEN Grp(name \o "_" \o p.name, RenameGroups(name, p.p))
    ELSE IF Unary(p) THEN [p EXCEPT !.p = RenameGroups(name, p.p)]
    ELSE IF Nary(p) THEN [p EXCEPT !.ps = [k \in DOMAIN p.ps |-> RenameGroups(name, p.ps[k])]]
    ELSE p

\* Token.modify_pattern
modify_pattern(name, pattern, group) == Grp(group, RenameGroups(name, pattern))

\* pattern_start + '(?=.+?%s)' % pattern_end
StartWithLookahead(pattern_start, pattern_end) ==
    Concat(pattern_start, Ahead(Concat(LazyPlus(Dot), pattern_end)))

\* Token.__init__
Token(name, pattern_start, pattern_end, skip, params) ==
    IF pattern_end = NoPattern
    THEN [name |-> name,
          group_start |-> name \o "_start",
          group_end |-> NoGroup,
          pattern_start |-> modify_pattern(name, pattern_start, name \o "_start"),
          pattern_end |-> NoPattern,
          skip |-> skip,
          params |-> params]
    ELSE [name |-> name,
          group_start |-> name \o "_start",
          group_end |-> name \o "_end",
          pattern_start |-> modify_pattern(name,
                                StartWithLookahead(pattern_start, pattern_end),
                                name \o "_start"),
          pattern_end |-> modify_pattern(name, pattern_end, name \o "_end"),
          skip |-> skip,
          params |-> params]

(***************************************************************************)
(* MatchGroup and Segment                                                  *)
(***************************************************************************)
Letters ==
    {"a", "b", "c", "d", "e", "f", "g", "h", "i", "j", "k", "l", "m",
     "n", "o", "p", "q", "r", "s", "t", "u", "v", "w", "x", "y", "z"}

WordChars == Letters \cup {"0", "1", "2", "3", "4", "5", "6", "7", "8", "9", "_"}

\* url_proto_regex = (?i)^[a-z][\w-]+:/{1,3}
HasProto(s) ==
    \E k \in 2..(Len(s) - 2) :
        /\ s[1] \in Letters
        /\ \A j \in 2..k : s[j] \in WordChars \cup {"-"}
        /\ s[k + 1] = ":"
        /\ s[k + 2] = "/"

\* calling the transform function of a MatchGroup: url_complete searches its
\* argument with a regex, which raises TypeError for None
FuncRaises(func, value) == func = "url_complete" /\ value = None

FuncApply(func, value) ==
    IF func = "url_complete"
    THEN IF HasProto(value.s) THEN value
         ELSE Str(<<"h", "t", "t", "p", ":", "/", "/">> \o value.s)
    ELSE value

\* match.group(name): IndexError for a name the pattern does not define,
\* None for a group that took no part in the match
GroupDefined(groupindex, name) == name \in groupindex

MatchGroupText(text, match, name) ==
    IF name \in DOMAIN match.caps
    THEN Str(Slice(text, match.caps[name][1], match.caps[name][2]))
    ELSE None

\* MatchGroup.get_group_value, before the transform function is applied
RawGroupValue(mg, token, text, match, groupindex) ==
    IF GroupDefined(groupindex, token.name \o "_" \o mg.group)
    THEN MatchGroupText(text, match, token.name \o "_" \o mg.group)
    ELSE Str(<<>>)

GroupValueRaises(mg, token, text, match, groupindex) ==
    /\ mg.func # NoFunc
    /\ FuncRaises(mg.func, RawGroupValue(mg, token, text, match, groupindex))

\* MatchGroup.get_group_value
get_group_value(mg, token, text, match, groupindex) ==
    IF mg.func = NoFunc
    THEN RawGroupValue(mg, token, text, match, groupindex)
    ELSE FuncApply(mg.func, RawGroupValue(mg, token, text, match, groupindex))

IsMatchGroup(v) == v.t = "mg"

\* Segment(**kwargs): `text` is the keyword text, params the other keywords
Segment(kwargs) ==
    [text |-> kwargs["text"],
     params |-> [k \in (DOMAIN kwargs) \ {"text"} |-> kwargs[k]]]

\* Segment(token=token, match=match, **kwargs) raises when a transform raises
SegmentRaises(kwargs, token, text, match, groupindex) ==
    \E k \in DOMAIN kwargs :
        /\ IsMatchGroup(kwargs[k])
        /\ GroupValueRaises(kwargs[k], token, text, match, groupindex)

\* Segment(token=token, match=match, **kwargs): update_text and update_params
SegmentOfMatch(kwargs, token, text, match, groupindex) ==
    Segment([k \in DOMAIN kwargs |->
                IF IsMatchGroup(kwargs[k])
                THEN get_group_value(kwargs[k], token, text, match, groupindex)
                ELSE kwargs[k]])

(***************************************************************************)
(* TokenStack: the stack holds references to the parser's tokens, here     *)
(* their positions in the parser's token list.                             *)
(***************************************************************************)
\* get_params merging from the innermost token outwards, so that the
\* outermost token's value wins
RECURSIVE get_params_inner_first(_, _)
get_params_inner_first(tokens, data) ==
    IF data = <<>> THEN EmptyDict
    ELSE Update(tokens[data[Len(data)]].params,
                get_params_inner_first(tokens, SubSeq(data, 1, Len(data) - 1)))

\* TokenStack.get_params
RECURSIVE get_params(_, _)
get_params(tokens, data) ==
    IF data = <<>> THEN EmptyDict
    ELSE Update(get_params(tokens, SubSeq(data, 1, Len(data) - 1)),
                tokens[data[Len(data)]].params)

\* the position of the last occurrence of token in data, 0 when absent
LastIndexOf(data, token) ==
    IF \E k \in DOMAIN data : data[k] = token
    THEN CHOOSE k \in DOMAIN data :
            data[k] = token /\ \A j \in DOMAIN data : data[j] = token => j <= k
    ELSE 0

RemoveAt(data, k) == SubSeq(data, 1, k - 1) \o SubSeq(data, k + 1, Len(data))

\* TokenStack.remove_token: self.__data[-1] raises IndexError on an empty list
remove_token(data, token) ==
    IF data = <<>>
    THEN [raised |-> TRUE, found |-> FALSE, data |-> data]
    ELSE IF data[Len(data)] = token
    THEN [raised |-> FALSE, found |-> TRUE, data |-> SubSeq(data, 1, Len(data) - 1)]
    ELSE IF LastIndexOf(data, token) = 0
    THEN [raised |-> FALSE, found |-> FALSE, data |-> data]
    ELSE [raised |-> FALSE, found |-> TRUE, data |-> RemoveAt(data, LastIndexOf(data, token))]

\* add_token putting the token under the entries of the stack
add_token_below(data, token) == <<token>> \o data

\* TokenStack.add_token
add_token(data, token) == Append(data, token)

\* skip_token suppressing, under a skip token of another kind, the end-matches
\* only
skip_token_ends_only(tokens, data, token, match_type) ==
    IF data = <<>> THEN FALSE
    ELSE IF tokens[data[Len(data)]].skip
    THEN IF data[Len(data)] = token THEN match_type # "end" ELSE match_type = "end"
    ELSE FALSE

\* skip_token without its test of the top entry against the matched token:
\* the skip token's own matches are never suppressed
skip_token_own(tokens, data, token, match_type) ==
    IF data = <<>> THEN FALSE
    ELSE IF tokens[data[Len(data)]].skip
    THEN data[Len(data)] # token
    ELSE FALSE

\* TokenStack.skip_token
skip_token(tokens, data, token, match_type) ==
    IF data = <<>> THEN FALSE
    ELSE IF tokens[data[Len(data)]].skip
    THEN IF data[Len(data)] = token THEN match_type # "end" ELSE TRUE
    ELSE FALSE

(***************************************************************************)
(* Parser                                                                  *)
(***************************************************************************)
\* Parser.build_regex: the patterns of the tokens, joined with '|'
RECURSIVE Patterns(_)
Patterns(tokens) ==
    IF tokens = <<>> THEN <<>>
    ELSE Patterns(SubSeq(tokens, 1, Len(tokens) - 1))
         \o <<tokens[Len(tokens)].pattern_start>>
         \o (IF tokens[Len(tokens)].pattern_end # NoPattern
             THEN <<tokens[Len(tokens)].pattern_end>> ELSE <<>>)

build_regex(tokens) == Alt(Patterns(tokens))

\* Parser.build_groups: group name -> (token, match type)
RECURSIVE build_groups(_)
build_groups(tokens) ==
    IF tokens = <<>> THEN [g \in {} |-> [token |-> 0, match_type |-> "single"]]
    ELSE LET n == Len(tokens)
             t == tokens[n]
         IN  Update(build_groups(SubSeq(tokens, 1, n - 1)),
                    IF t.group_end # NoGroup
                    THEN (t.group_start :> [token |-> n, match_type |-> "start"])
                         @@ (t.group_end :> [token |-> n, match_type |-> "end"])
                    ELSE (t.group_start :> [token |-> n, match_type |-> "single"]))

\* re.compile accepting a pattern that defines a group name twice
CompileAcceptsRedefinition(regex) == FALSE

\* re.compile raises re.error "redefinition of group name" when two groups of
\* the pattern have one name
CompileRaises(regex) == GroupCount(regex) # Cardinality(GroupNames(regex))

\* Parser.__init__ (cls is the class: Parser or MarkdownParser)
ParserInit(cls, tokens) ==
    [cls |-> cls,
     tokens |-> tokens,
     regex |-> build_regex(tokens),
     groups |-> build_groups(tokens),
     groupindex |-> GroupNames(build_regex(tokens))]

\* RE_CLEAN_WHITESPACE.sub(' ', text): every run of spaces becomes one space
RECURSIVE CleanWhitespace(_)
CleanWhitespace(s) ==
    IF s = <<>> THEN s
    ELSE IF s[1] = " " /\ Len(s) > 1 /\ s[2] = " " THEN CleanWhitespace(Tail(s))
    ELSE <<s[1]>> \o CleanWhitespace(Tail(s))

\* Parser.postprocess / MarkdownParser.postprocess
postprocess(cls, s) == IF cls = "MarkdownParser" THEN CleanWhitespace(s) ELSE s

\* Parser.preprocess
preprocess(cls, s) == s

\* Parser.get_matched_token
get_matched_token(self, match) == self.groups[match.lastgroup]

(***************************************************************************)
(* The token definitions of tests/test_example.py                          *)
(***************************************************************************)
\* the character ` (which a TLA+ string cannot hold)
Backquote == "BACKQUOTE"

Whitespace == {" ", "\t", "\n", "\r"}

\* boundary_chars (the ASCII ones)
BoundaryChars ==
    Whitespace \cup {Backquote, "!", "(", ")", "[", "]", "{", "}", ";", ":", "'", "\"",
                     ".", ",", "<", ">", "?", "*", "_", "~", "="}

b_left == Alt(<<Behind(Cls(BoundaryChars)), Behind(Bol)>>)

b_right == Alt(<<Ahead(Cls(BoundaryChars)), Ahead(Eol)>>)

NotEscaped == NotBehind(Lit(<<"\\">>))

\* markdown_start.format(tag=tag)
markdown_start(tag) ==
    Cat(<<b_left, NotEscaped, Lit(tag), NotAhead(Cls(Whitespace)), NotAhead(Lit(tag))>>)

\* markdown_end.format(tag=tag)
markdown_end(tag) ==
    Cat(<<NotBehind(Lit(tag)), NotBehind(Cls(Whitespace)), NotEscaped, Lit(tag), b_right>>)

markdown_link ==
    Cat(<<NotEscaped, Lit(<<"[">>), Grp("link", LazyPlus(Dot)), Lit(<<"]">>),
          Lit(<<"(">>), Grp("url", LazyPlus(Dot)), Lit(<<")">>)>>)

newline == Alt(<<Lit(<<"\n">>), Lit(<<"\r", "\n">>)>>)

Bold == "is_bold" :> True

Italic == "is_italic" :> True

ExampleTokens ==
    <<Token("bi1", markdown_start(<<"*", "*", "*">>), markdown_end(<<"*", "*", "*">>),
            FALSE, Bold @@ Italic),
      Token("bi2", markdown_start(<<"_", "_", "_">>), markdown_end(<<"_", "_", "_">>),
            FALSE, Bold @@ Italic),
      Token("b1", markdown_start(<<"*", "*">>), markdown_end(<<"*", "*">>), FALSE, Bold),
      Token("b2", markdown_start(<<"_", "_">>), markdown_end(<<"_", "_">>), FALSE, Bold),
      Token("i1", markdown_start(<<"*">>), markdown_end(<<"*">>), FALSE, Italic),
      Token("i2", markdown_start(<<"_">>), markdown_end(<<"_">>), FALSE, Italic),
      Token("pre3", markdown_start(<<Backquote, Backquote, Backquote>>), markdown_end(<<Backquote, Backquote, Backquote>>),
            TRUE, EmptyDict),
      Token("pre2", markdown_start(<<Backquote, Backquote>>), markdown_end(<<Backquote, Backquote>>), TRUE, EmptyDict),
      Token("pre1", markdown_start(<<Backquote>>), markdown_end(<<Backquote>>), TRUE, EmptyDict),
      Token("s", markdown_start(<<"~", "~">>), markdown_end(<<"~", "~">>), FALSE,
            "is_strikethrough" :> True),
      Token("u", markdown_start(<<"=", "=">>), markdown_end(<<"=", "=">>), FALSE,
            "is_underline" :> True),
      Token("link", markdown_link, NoPattern, FALSE,
            ("text" :> MatchGroup("link", NoFunc))
            @@ ("link_target" :> MatchGroup("url", "url_complete"))),
      Token("br", newline, NoPattern, FALSE,
            ("text" :> Str(<<"\n">>))
            @@ ("segment_type" :> Str(<<"L", "I", "N", "E", "_", "B", "R", "E", "A", "K">>)))>>

(***************************************************************************)
(* Parsers and inputs                                                      *)
(***************************************************************************)
TokenNamed(toks, name) == toks[CHOOSE k \in DOMAIN toks : toks[k].name = name]

\* the bold, italic and code tokens of the example
MarkupTokens ==
    <<TokenNamed(ExampleTokens, "b1"), TokenNamed(ExampleTokens, "i1"),
      TokenNamed(ExampleTokens, "pre1")>>

Red == Str(<<"r", "e", "d">>)

Blue == Str(<<"b", "l", "u", "e">>)

\* two paired tokens that set the same attribute to different values
NestTokens ==
    <<Token("x", Lit(<<"(">>), Lit(<<")">>), FALSE, ("color" :> Red) @@ Bold),
      Token("y", Lit(<<"[">>), Lit(<<"]">>), FALSE, "color" :> Blue)>>

\* single tokens with MatchGroup attributes, inside a paired and a skip token:
\* ref has an optional group `id` and names a group `anchor` it does not
\* define, uref applies url_complete to an optional group
LinkTokens ==
    <<Token("q", Lit(<<"<">>), Lit(<<">">>), FALSE,
            "segment_type" :> Str(<<"Q", "U", "O", "T", "E">>)),
      TokenNamed(ExampleTokens, "pre1"),
      TokenNamed(ExampleTokens, "link"),
      TokenNamed(ExampleTokens, "br"),
      Token("ref", Cat(<<Lit(<<"{">>), Opt(Grp("id", Lit(<<"a">>))), Lit(<<"}">>)>>),
            NoPattern, FALSE,
            ("ident" :> MatchGroup("id", NoFunc)) @@ ("anchor" :> MatchGroup("anchor", NoFunc))),
      Token("uref", Cat(<<Lit(<<"!">>), Opt(Grp("url", Lit(<<"a">>)))>>),
            NoPattern, FALSE,
            "link_target" :> MatchGroup("url", "url_complete"))>>

\* the bold token alone
BoldTokens == <<TokenNamed(ExampleTokens, "b1")>>

\* a bold token delimited by a bare ** on both sides
PlainBoldTokens == <<Token("b", Lit(<<"*", "*">>), Lit(<<"*", "*">>), FALSE, Bold)>>

\* the parsers the scans are made with
Parsers ==
    <<ParserInit("Parser", MarkupTokens),
      ParserInit("MarkdownParser", MarkupTokens),
      ParserInit("Parser", NestTokens),
      ParserInit("Parser", LinkTokens),
      ParserInit("Parser", BoldTokens),
      ParserInit("Parser", PlainBoldTokens)>>

MaxLen == 5

MaxMarkdownLen == 6

MaxNestLen == 5

MaxPieces == 3

MaxBoldLen == 6

MaxPlainLen == 5

ExampleAlphabet == {"a", " ", "*", Backquote}

MarkdownAlphabet == {"a", " ", Backquote}

NestAlphabet == {"a", "(", ")", "[", "]"}

BoldAlphabet == {"a", "*"}

LinkPieces ==
    {<<"a">>, <<"\n">>, <<"<">>, <<">">>, <<Backquote>>, <<"!">>,
     <<"{", "}">>, <<"{", "a", "}">>, <<"[", "a", "]", "(", "a", ")">>}

\* all texts of at most n characters over an alphabet
Texts(alphabet, n) == UNION {[1..k -> alphabet] : k \in 0..n}

RECURSIVE Join(_)
Join(pieces) == IF pieces = <<>> THEN <<>> ELSE pieces[1] \o Join(Tail(pieces))

\* all texts made of at most n of the pieces
PieceTexts(pieces, n) == {Join(ps) : ps \in Texts(pieces, n)}

\* the texts each of the Parsers is given
Inputs ==
    <<Texts(ExampleAlphabet, MaxLen),
      Texts(MarkdownAlphabet, MaxMarkdownLen),
      Texts(NestAlphabet, MaxNestLen),
      PieceTexts(LinkPieces, MaxPieces),
      Texts(BoldAlphabet, MaxBoldLen),
      Texts(BoldAlphabet, MaxPlainLen)>>

(***************************************************************************)
(* Parser.parse: one scan by the parser `self`.  `match` is the item that  *)
(* finditer hands to the next iteration of the loop (NoMatch once it is    *)
(* exhausted), `out` the Segments yielded so far.  `origin` and `log` are  *)
(* history: where each Segment came from, and what each iteration of the   *)
(* loop found and did.                                                     *)
(***************************************************************************)
VARIABLES self, text, token_stack, last_pos, match, out, pc, err, origin, log,
          suspended, mixed, md_tokens, md_stack, md_event, md_pc

\* the variables of the Markdown layer (see below)
md_vars == <<mixed, md_tokens, md_stack, md_event, md_pc>>

vars == <<self, text, token_stack, last_pos, match, out, pc, err, origin, log,
          suspended, md_vars>>

\* no second call of parse
NoCall == [pc |-> "none"]

\* no MarkdownParser
NoMarkdown ==
    /\ mixed = <<>>
    /\ md_tokens = <<>>
    /\ md_stack = <<>>
    /\ md_event = [kind |-> "none"]
    /\ md_pc = "none"

tokens == self.tokens

\* token, match_type, group = self.get_matched_token(match)
matched == get_matched_token(self, match)

token == matched.token

match_type == matched.match_type

\* start_pos = match.start(group), match.end(group)
start_pos == match.caps[match.lastgroup][1]

end_pos == match.caps[match.lastgroup][2]

\* params = token_stack.get_params()
params == get_params(tokens, token_stack)

Init ==
    /\ \E p \in DOMAIN Parsers :
          /\ self = Parsers[p]
          /\ text \in {preprocess(self.cls, t) : t \in Inputs[p]}
    /\ token_stack = <<>>
    /\ last_pos = 0
    /\ match = Search(self.regex, text, 0)
    /\ out = <<>>
    /\ pc = "scan"
    /\ err = "None"
    /\ origin = <<>>
    /\ log = <<>>
    /\ suspended = NoCall
    /\ NoMarkdown

Entry(kind) ==
    [kind |-> kind, token |-> token, match_type |-> match_type,
     start |-> start_pos, end |-> end_pos,
     stack |-> token_stack, last_pos |-> last_pos, nout |-> Len(out)]

\* Preceding with the attributes read after the match changed the stack
PrecedingAfterChange ==
    IF start_pos > last_pos
    THEN <<Segment(Update(
              get_params(tokens,
                         IF match_type = "start" THEN add_token(token_stack, token)
                         ELSE IF match_type = "end"
                         THEN remove_token(token_stack, token).data
                         ELSE token_stack),
              "text" :> Str(postprocess(self.cls, Slice(text, last_pos, start_pos)))))>>
    ELSE <<>>

\* the Segment for the text preceding the matched token, if there is any
Preceding ==
    IF start_pos > last_pos
    THEN <<Segment(Update(params,
              "text" :> Str(postprocess(self.cls, Slice(text, last_pos, start_pos)))))>>
    ELSE <<>>

PrecedingOrigin ==
    IF start_pos > last_pos
    THEN <<[kind |-> "text", from |-> last_pos, to |-> start_pos, stack |-> token_stack]>>
    ELSE <<>>

Continue(kind) ==
    /\ match' = NextMatch(self.regex, text, match)
    /\ log' = Append(log, Entry(kind))

\* if token_stack.skip_token(token, match_type): continue
SkipMatch ==
    /\ pc = "scan" /\ match.found
    /\ skip_token(tokens, token_stack, token, match_type)
    /\ Continue("skip")
    /\ UNCHANGED <<md_vars, suspended, self, text, token_stack, last_pos, out, pc, err, origin>>

\* token_stack.remove_token(token) raises
EndRaises ==
    /\ pc = "scan" /\ match.found
    /\ ~skip_token(tokens, token_stack, token, match_type)
    /\ match_type = "end"
    /\ remove_token(token_stack, token).raised
    /\ pc' = "raised"
    /\ err' = "IndexError"
    /\ log' = Append(log, Entry("raise"))
    /\ UNCHANGED <<md_vars, suspended, self, text, token_stack, last_pos, match, out, origin>>

\* if not token_stack.remove_token(token): continue
EndNotFound ==
    /\ pc = "scan" /\ match.found
    /\ ~skip_token(tokens, token_stack, token, match_type)
    /\ match_type = "end"
    /\ ~remove_token(token_stack, token).raised
    /\ ~remove_token(token_stack, token).found
    /\ token_stack' = remove_token(token_stack, token).data
    /\ Continue("notfound")
    /\ UNCHANGED <<md_vars, suspended, self, text, last_pos, out, pc, err, origin>>

EndMatch ==
    /\ pc = "scan" /\ match.found
    /\ ~skip_token(tokens, token_stack, token, match_type)
    /\ match_type = "end"
    /\ ~remove_token(token_stack, token).raised
    /\ remove_token(token_stack, token).found
    /\ token_stack' = remove_token(token_stack, token).data
    /\ out' = out \o Preceding
    /\ origin' = origin \o PrecedingOrigin
    /\ last_pos' = end_pos
    /\ Continue("end")
    /\ UNCHANGED <<md_vars, suspended, self, text, pc, err>>

\* StartMatch moving last_pos to the start of the matched token only
StartMatchKeepsDelimiter ==
    /\ pc = "scan" /\ match.found
    /\ ~skip_token(tokens, token_stack, token, match_type)
    /\ match_type = "start"
    /\ out' = out \o Preceding
    /\ origin' = origin \o PrecedingOrigin
    /\ token_stack' = add_token(token_stack, token)
    /\ last_pos' = start_pos
    /\ Continue("start")
    /\ UNCHANGED <<md_vars, suspended, self, text, pc, err>>

StartMatch ==
    /\ pc = "scan" /\ match.found
    /\ ~skip_token(tokens, token_stack, token, match_type)
    /\ match_type = "start"
    /\ out' = out \o Preceding
    /\ origin' = origin \o PrecedingOrigin
    /\ token_stack' = add_token(token_stack, token)
    /\ last_pos' = end_pos
    /\ Continue("start")
    /\ UNCHANGED <<md_vars, suspended, self, text, pc, err>>

\* single_params with the stack's attributes applied over the token's
single_params_stack_wins ==
    Update(Update(tokens[token].params, "text" :> Str(Slice(text, start_pos, end_pos))),
           params)

\* single_params = params.copy(); single_params['text'] = match.group(group);
\* single_params.update(token.params)
single_params ==
    Update(Update(params, "text" :> Str(Slice(text, start_pos, end_pos))),
           tokens[token].params)

\* SingleMatch putting the single token on the stack
SingleMatchPushes ==
    /\ pc = "scan" /\ match.found
    /\ ~skip_token(tokens, token_stack, token, match_type)
    /\ match_type = "single"
    /\ ~SegmentRaises(single_params, tokens[token], text, match, self.groupindex)
    /\ out' = out \o Preceding
                  \o <<SegmentOfMatch(single_params, tokens[token], text, match,
                                      self.groupindex)>>
    /\ origin' = origin \o PrecedingOrigin
                  \o <<[kind |-> "single", from |-> start_pos, to |-> end_pos,
                        stack |-> token_stack, token |-> token, match |-> match]>>
    /\ last_pos' = end_pos
    /\ Continue("single")
    /\ token_stack' = add_token(token_stack, token)
    /\ UNCHANGED <<md_vars, suspended, self, text, pc, err>>

\* SingleMatch moving last_pos to the start of the matched token only
SingleMatchKeepsPos ==
    /\ pc = "scan" /\ match.found
    /\ ~skip_token(tokens, token_stack, token, match_type)
    /\ match_type = "single"
    /\ ~SegmentRaises(single_params, tokens[token], text, match, self.groupindex)
    /\ out' = out \o Preceding
                  \o <<SegmentOfMatch(single_params, tokens[token], text, match,
                                      self.groupindex)>>
    /\ origin' = origin \o PrecedingOrigin
                  \o <<[kind |-> "single", from |-> start_pos, to |-> end_pos,
                        stack |-> token_stack, token |-> token, match |-> match]>>
    /\ last_pos' = start_pos
    /\ Continue("single")
    /\ UNCHANGED <<md_vars, suspended, self, text, token_stack, pc, err>>

SingleMatch ==
    /\ pc = "scan" /\ match.found
    /\ ~skip_token(tokens, token_stack, token, match_type)
    /\ match_type = "single"
    /\ ~SegmentRaises(single_params, tokens[token], text, match, self.groupindex)
    /\ out' = out \o Preceding
                  \o <<SegmentOfMatch(single_params, tokens[token], text, match,
                                      self.groupindex)>>
    /\ origin' = origin \o PrecedingOrigin
                  \o <<[kind |-> "single", from |-> start_pos, to |-> end_pos,
                        stack |-> token_stack, token |-> token, match |-> match]>>
    /\ last_pos' = end_pos
    /\ Continue("single")
    /\ UNCHANGED <<md_vars, suspended, self, text, token_stack, pc, err>>

\* a transform function raises while the Segment of a single token is built
SingleRaises ==
    /\ pc = "scan" /\ match.found
    /\ ~skip_token(tokens, token_stack, token, match_type)
    /\ match_type = "single"
    /\ SegmentRaises(single_params, tokens[token], text, match, self.groupindex)
    /\ out' = out \o Preceding
    /\ origin' = origin \o PrecedingOrigin
    /\ pc' = "raised"
    /\ err' = "TypeError"
    /\ log' = Append(log, Entry("raise"))
    /\ UNCHANGED <<md_vars, suspended, self, text, token_stack, last_pos, match>>

\* Remainder without the attributes of the tokens still open
RemainderPlain ==
    IF last_pos < Len(text)
    THEN <<Segment("text" :> Str(postprocess(self.cls, Slice(text, last_pos, Len(text)))))>>
    ELSE <<>>

\* Append anything that's left: the Segment for the text after last_pos
Remainder ==
    IF last_pos < Len(text)
    THEN <<Segment(Update(params,
              "text" :> Str(postprocess(self.cls, Slice(text, last_pos, Len(text))))))>>
    ELSE <<>>

RemainderOrigin ==
    IF last_pos < Len(text)
    THEN <<[kind |-> "final", from |-> last_pos, to |-> Len(text), stack |-> token_stack]>>
    ELSE <<>>

\* finditer is exhausted
Finish ==
    /\ pc = "scan" /\ ~match.found
    /\ out' = out \o Remainder
    /\ origin' = origin \o RemainderOrigin
    /\ pc' = "done"
    /\ UNCHANGED <<md_vars, suspended, self, text, token_stack, last_pos, match, err, log>>

Next ==
    \/ SkipMatch
    \/ EndRaises
    \/ EndNotFound
    \/ EndMatch
    \/ StartMatch
    \/ SingleMatch
    \/ SingleRaises
    \/ Finish

Spec == Init /\ [][Next]_vars

(***************************************************************************)
(* Two calls of parse on one Parser.  Each call is a generator with its    *)
(* own locals; the consumer pulls from either of them in any order.  The   *)
(* variables above are the locals of the generator that is running, and    *)
(* `suspended` holds those of the other one.                               *)
(***************************************************************************)
\* the locals of a call of parse(text) before its first step
NewCall(parser, t) ==
    [text |-> preprocess(parser.cls, t),
     token_stack |-> <<>>,
     last_pos |-> 0,
     match |-> Search(parser.regex, preprocess(parser.cls, t), 0),
     out |-> <<>>,
     pc |-> "scan",
     err |-> "None",
     origin |-> <<>>,
     log |-> <<>>]

Running ==
    [text |-> text, token_stack |-> token_stack, last_pos |-> last_pos,
     match |-> match, out |-> out, pc |-> pc, err |-> err,
     origin |-> origin, log |-> log]

\* fragments of the texts given to the two calls
PairPieces ==
    {<<"a">>, <<"<", "a", Backquote>>, <<">">>, <<"!">>,
     <<"[", "a", "]", "(", "a", ")">>, <<Backquote, "!", Backquote>>}

MaxPairPieces == 2

\* texts the second call may be given (or the text of the first call)
SecondTexts ==
    {<<"<", "a", Backquote, ">", "a">>, <<">">>, <<"a", "!">>,
     <<"<", "[", "a", "]", "(", "a", ")", ">">>}

PairInit ==
    /\ self = ParserInit("Parser", LinkTokens)
    /\ \E t1 \in PieceTexts(PairPieces, MaxPairPieces) :
           /\ text = NewCall(self, t1).text
           /\ \E t2 \in SecondTexts \cup {t1} : suspended = NewCall(self, t2)
    /\ token_stack = <<>>
    /\ last_pos = 0
    /\ match = Search(self.regex, text, 0)
    /\ out = <<>>
    /\ pc = "scan"
    /\ err = "None"
    /\ origin = <<>>
    /\ log = <<>>
    /\ NoMarkdown

\* SwitchCall with the TokenStack kept by the Parser and used by both calls
SwitchCallSharedStack ==
    /\ suspended.pc = "scan"
    /\ text' = suspended.text
    /\ last_pos' = suspended.last_pos
    /\ match' = suspended.match
    /\ out' = suspended.out
    /\ pc' = suspended.pc
    /\ err' = suspended.err
    /\ origin' = suspended.origin
    /\ log' = suspended.log
    /\ suspended' = Running
    /\ UNCHANGED <<md_vars, self, token_stack>>

\* SwitchCall with last_pos kept by the Parser and used by both calls
SwitchCallSharedPos ==
    /\ suspended.pc = "scan"
    /\ text' = suspended.text
    /\ token_stack' = suspended.token_stack
    /\ match' = suspended.match
    /\ out' = suspended.out
    /\ pc' = suspended.pc
    /\ err' = suspended.err
    /\ origin' = suspended.origin
    /\ log' = suspended.log
    /\ suspended' = Running
    /\ UNCHANGED <<md_vars, self, last_pos>>

\* the consumer pulls from the other generator, which has not finished: the
\* running one is suspended with its locals and the other resumes with its
\* own
SwitchCall ==
    /\ suspended.pc = "scan"
    /\ text' = suspended.text
    /\ token_stack' = suspended.token_stack
    /\ last_pos' = suspended.last_pos
    /\ match' = suspended.match
    /\ out' = suspended.out
    /\ pc' = suspended.pc
    /\ err' = suspended.err
    /\ origin' = suspended.origin
    /\ log' = suspended.log
    /\ suspended' = Running
    /\ UNCHANGED <<md_vars, self>>

PairNext ==
    \/ Next
    \/ SwitchCall

PairSpec == PairInit /\ [][PairNext]_vars

(***************************************************************************)
(* Parser.parse run on its own from the first pull to the end, as a        *)
(* function of the parser and the text.                                    *)
(***************************************************************************)
\* one iteration of the loop, or the code after it, on the locals st
ParseStep(parser, st) ==
    LET found == get_matched_token(parser, st.match)
        tok == found.token
        mtype == found.match_type
        from == st.match.caps[st.match.lastgroup][1]
        to == st.match.caps[st.match.lastgroup][2]
        attrs == get_params(parser.tokens, st.token_stack)
        preceding ==
            IF from > st.last_pos
            THEN <<Segment(Update(attrs,
                      "text" :> Str(postprocess(parser.cls,
                                                Slice(st.text, st.last_pos, from)))))>>
            ELSE <<>>
        removed == remove_token(st.token_stack, tok)
        kwargs == Update(Update(attrs, "text" :> Str(Slice(st.text, from, to))),
                         parser.tokens[tok].params)
        next == NextMatch(parser.regex, st.text, st.match)
    IN  IF ~st.match.found
        THEN [st EXCEPT
                !.pc = "done",
                !.out = @ \o (IF st.last_pos < Len(st.text)
                              THEN <<Segment(Update(attrs,
                                        "text" :> Str(postprocess(parser.cls,
                                            Slice(st.text, st.last_pos, Len(st.text))))))>>
                              ELSE <<>>)]
        ELSE IF skip_token(parser.tokens, st.token_stack, tok, mtype)
        THEN [st EXCEPT !.match = next]
        ELSE IF mtype = "end" /\ removed.raised
        THEN [st EXCEPT !.pc = "raised", !.err = "IndexError"]
        ELSE IF mtype = "end" /\ ~removed.found
        THEN [st EXCEPT !.match = next]
        ELSE IF mtype = "end"
        THEN [st EXCEPT !.token_stack = removed.data, !.out = @ \o preceding,
                        !.last_pos = to, !.match = next]
        ELSE IF mtype = "start"
        THEN [st EXCEPT !.token_stack = add_token(@, tok), !.out = @ \o preceding,
                        !.last_pos = to, !.match = next]
        ELSE IF SegmentRaises(kwargs, parser.tokens[tok], st.text, st.match,
                              parser.groupindex)
        THEN [st EXCEPT !.out = @ \o preceding, !.pc = "raised", !.err = "TypeError"]
        ELSE [st EXCEPT
                !.out = @ \o preceding
                          \o <<SegmentOfMatch(kwargs, parser.tokens[tok], st.text,
                                              st.match, parser.groupindex)>>,
                !.last_pos = to, !.match = next]

RECURSIVE ParseToEnd(_, _)
ParseToEnd(parser, st) ==
    IF st.pc # "scan" THEN st ELSE ParseToEnd(parser, ParseStep(parser, st))

\* list(parser.parse(t)), with the exception that ended it if one did
parse(parser, t) == ParseToEnd(parser, NewCall(parser, t))

(***************************************************************************)
(* Construction: Parser(tokens), then one call of parse.  Before it is     *)
(* constructed the parser is its class and the token list it is given.     *)
(***************************************************************************)
\* tokens added to LinkTokens: `q` has the name of a token of LinkTokens,
\* the group x_start of `t` gets the name of the start group of `t_x`, `e`
\* names a group in its pattern_end, and `w` collides with nothing
ExtraTokens ==
    {Token("q", Lit(<<"a">>), NoPattern, FALSE, EmptyDict),
     Token("t", Grp("x_start", Lit(<<"!">>)), NoPattern, FALSE, EmptyDict),
     Token("t_x", Lit(<<"a">>), NoPattern, FALSE, Italic),
     Token("e", Lit(<<"(">>), Grp("g", Lit(<<")">>)), FALSE, EmptyDict),
     Token("w", Lit(<<"a">>), NoPattern, FALSE, Bold)}

MaxExtra == 2

TokenLists == {LinkTokens \o extra : extra \in Texts(ExtraTokens, MaxExtra)}

ConstructInit ==
    /\ self \in {[cls |-> "Parser", tokens |-> list] : list \in TokenLists}
    /\ text \in PieceTexts(PairPieces, MaxPairPieces)
    /\ token_stack = <<>>
    /\ last_pos = 0
    /\ match = NoMatch
    /\ out = <<>>
    /\ pc = "new"
    /\ err = "None"
    /\ origin = <<>>
    /\ log = <<>>
    /\ suspended = NoCall
    /\ NoMarkdown

\* Parser(tokens), and the first match of parser.parse(text)
Construct ==
    /\ pc = "new"
    /\ IF CompileRaises(build_regex(self.tokens))
       THEN /\ pc' = "raised"
            /\ err' = "re.error"
            /\ UNCHANGED <<self, match>>
       ELSE /\ self' = ParserInit(self.cls, self.tokens)
            /\ match' = Search(self'.regex, text, 0)
            /\ pc' = "scan"
            /\ err' = err
    /\ UNCHANGED <<md_vars, suspended, text, token_stack, last_pos, out, origin, log>>

ConstructNext ==
    \/ Construct
    \/ Next

ConstructSpec == ConstructInit /\ [][ConstructNext]_vars

(***************************************************************************)
(* The Markdown layer (reparser/markdown.py).  The code compares objects   *)
(* by identity, so a list entry, a stack entry or a group's tag is the     *)
(* name of its object in MarkdownObjects; "created" is the MarkdownGroup   *)
(* the constructor makes.  A scan is driven by the matches the compound    *)
(* pattern delivers, each a match of one token's start or end pattern.     *)
(***************************************************************************)
\* MarkdownTag(char, skip, **params)
MarkdownTag(char, skip, kwargs) ==
    [type |-> "MarkdownTag", char |-> char, skip |-> skip, params |-> kwargs]

\* Token(name, pattern_start, pattern_end, skip): its name, the delimiter its
\* patterns match, whether it has a pattern_end, and its skip flag
PlainToken(name, char, paired, skip) ==
    [type |-> "Token", name |-> name, char |-> char, paired |-> paired,
     skip |-> skip, params |-> EmptyDict]

\* MarkdownGroup(*tokens, name=name)
MarkdownGroup(tags, name) ==
    [type |-> "MarkdownGroup", name |-> name, tags |-> tags, paired |-> TRUE,
     skip |-> FALSE, params |-> EmptyDict]

MarkdownObjects ==
    "star" :> MarkdownTag("\\*", FALSE, Bold) @@
    "tick" :> MarkdownTag(Backquote, TRUE, EmptyDict) @@
    "tilde" :> MarkdownTag("~", TRUE, EmptyDict) @@
    "underscore" :> MarkdownTag("_", FALSE, Italic) @@
    "token_markdown" :> PlainToken("markdown", "_", TRUE, FALSE) @@
    "token_bullet" :> PlainToken("bullet", "\\*", FALSE, FALSE) @@
    "group_markdown" :> MarkdownGroup(<<"underscore">>, "markdown") @@
    "group_markdownG" :> MarkdownGroup(<<"underscore", "tilde">>, "markdownG")

\* the entries a caller puts into the list
MixedObjects ==
    {"star", "tick", "tilde", "token_markdown", "token_bullet", "group_markdown",
     "group_markdownG"}

\* isinstance(mixed, MarkdownTag)
IsTag(object) == MarkdownObjects[object].type = "MarkdownTag"

\* isinstance(mixed, MarkdownGroup)
IsGroup(object) == MarkdownObjects[object].type = "MarkdownGroup"

\* the name-choosing loop of MarkdownBaseParser.__init__
RECURSIVE unique_name(_, _)
unique_name(name, names) ==
    IF name \in names THEN unique_name(name \o "G", names) ELSE name

\* an entry of a parser's token list: the object and its fields
EntryOf(object) == [object |-> object] @@ MarkdownObjects[object]

\* MarkdownBaseParser.__init__ putting the created group where the first
\* MarkdownTag of the list is
final_tokens_in_place(list) ==
    LET tags_to_wrap == SelectSeq(list, IsTag)
        names == {MarkdownObjects[list[k]].name :
                     k \in {j \in DOMAIN list : IsGroup(list[j])}}
        created == [object |-> "created"] @@
                   MarkdownGroup(tags_to_wrap, unique_name("markdown", names))
        first == IF tags_to_wrap = <<>> THEN 0
                 ELSE CHOOSE k \in DOMAIN list :
                         IsTag(list[k]) /\ \A j \in 1..(k - 1) : ~IsTag(list[j])
        before == SelectSeq(SubSeq(list, 1, first), LAMBDA o : ~IsTag(o))
        after == SelectSeq(SubSeq(list, first + 1, Len(list)), LAMBDA o : ~IsTag(o))
    IN  [k \in DOMAIN before |-> EntryOf(before[k])] \o
        (IF tags_to_wrap # <<>> THEN <<created>> ELSE <<>>) \o
        [k \in DOMAIN after |-> EntryOf(after[k])]

\* MarkdownBaseParser.__init__: the token list handed to the base class
final_tokens(list) ==
    LET tags_to_wrap == SelectSeq(list, IsTag)
        kept == SelectSeq(list, LAMBDA o : ~IsTag(o))
        names == {MarkdownObjects[kept[k]].name :
                     k \in {j \in DOMAIN kept : IsGroup(kept[j])}}
        created == [object |-> "created"] @@
                   MarkdownGroup(tags_to_wrap, unique_name("markdown", names))
    IN  [k \in DOMAIN kept |-> EntryOf(kept[k])] \o
        (IF tags_to_wrap # <<>> THEN <<created>> ELSE <<>>)

\* the base class's constructor: the derived group names of two tokens of
\* one name collide
InitRaises(list) ==
    \E j, k \in DOMAIN list : j # k /\ list[j].name = list[k].name

\* token.char.replace(r'\*', '*')
Unescape(char) == IF char = "\\*" THEN "*" ELSE char

\* the Token of an entry, with the delimiters alone as its patterns: the
\* alternation of its tags' chars for a MarkdownGroup
DelimiterToken(entry) ==
    LET pattern ==
            IF entry.type = "MarkdownGroup"
            THEN Alt([k \in DOMAIN entry.tags |->
                         Lit(<<Unescape(MarkdownObjects[entry.tags[k]].char)>>)])
            ELSE Lit(<<Unescape(entry.char)>>)
    IN  Token(entry.name, pattern, IF entry.paired THEN pattern ELSE NoPattern,
              entry.skip, entry.params)

\* the parser the base class constructs from the token list
MarkdownParserOf(list) ==
    ParserInit("MarkdownParser", [k \in DOMAIN list |-> DelimiterToken(list[k])])

\* MarkdownGroup.get_tag: a later tag of the same char replaces an earlier one
get_tag(group, char) ==
    LET at == {k \in DOMAIN group.tags :
                  Unescape(MarkdownObjects[group.tags[k]].char) = char}
    IN  group.tags[CHOOSE k \in at : \A j \in at : j <= k]

\* the matches a scan by a parser of the token list `list` can deliver:
\* [group: the position of the token, match_type, char: match.group(0)]
Matches(list) ==
    {[group |-> g, match_type |-> t, char |-> c] :
        g \in DOMAIN list, t \in {"start", "end", "single"},
        c \in {"", "*", Backquote, "~", "_"}} \cap
    {m \in [group : DOMAIN list, match_type : {"start", "end", "single"},
            char : {"", "*", Backquote, "~", "_"}] :
        LET entry == list[m.group]
        IN  /\ (m.match_type = "single") = ~entry.paired
            /\ IF entry.type = "MarkdownGroup"
               THEN \E k \in DOMAIN entry.tags :
                       Unescape(MarkdownObjects[entry.tags[k]].char) = m.char
               ELSE m.char = ""}

\* TokenStack.get_last_token
get_last_token(data) ==
    IF data = <<>> THEN [raised |-> TRUE, token |-> ""]
    ELSE [raised |-> FALSE, token |-> data[Len(data)]]

\* MarkdownBaseParser.get_matched_token without its test of the stack: the
\* match type is the one of the pattern half that fired
markdown_get_matched_token_as_matched(list, m, data) ==
    LET markdown_group == list[m.group]
    IN  IF markdown_group.type # "MarkdownGroup"
        THEN [token |-> markdown_group.object, match_type |-> m.match_type]
        ELSE [token |-> get_tag(markdown_group, m.char), match_type |-> m.match_type]

\* MarkdownBaseParser.get_matched_token
markdown_get_matched_token(list, m, data) ==
    LET markdown_group == list[m.group]
        markdown_tag == get_tag(markdown_group, m.char)
        last_tag == get_last_token(data)
    IN  IF markdown_group.type # "MarkdownGroup"
        THEN [token |-> markdown_group.object, match_type |-> m.match_type]
        ELSE IF /\ MarkdownObjects[markdown_tag].skip
                /\ ~last_tag.raised
                /\ last_tag.token = markdown_tag
        THEN [token |-> markdown_tag, match_type |-> "end"]
        ELSE [token |-> markdown_tag, match_type |-> m.match_type]

\* one iteration of the scan loop on the match m: what it resolves to and
\* what it does to the stack
MarkdownIteration(list, data, m) ==
    LET got == markdown_get_matched_token(list, m, data)
        removed == remove_token(data, got.token)
        base == [match |-> m, token |-> got.token, match_type |-> got.match_type,
                 before |-> data]
    IN  IF skip_token(MarkdownObjects, data, got.token, got.match_type)
        THEN base @@ [kind |-> "skipped", data |-> data]
        ELSE IF got.match_type = "end"
        THEN IF removed.raised THEN base @@ [kind |-> "raised", data |-> data]
             ELSE IF removed.found THEN base @@ [kind |-> "closed", data |-> removed.data]
             ELSE base @@ [kind |-> "unmatched", data |-> data]
        ELSE IF got.match_type = "start"
        THEN base @@ [kind |-> "opened", data |-> add_token(data, got.token)]
        ELSE base @@ [kind |-> "single", data |-> data]

MaxMixed == 3

MaxDepth == 2

\* the lists of at most MaxMixed different entries
MixedLists ==
    {list \in UNION {[1..n -> MixedObjects] : n \in 0..MaxMixed} :
        \A j, k \in DOMAIN list : j # k => list[j] # list[k]}

\* no call of Parser.parse
NoParse ==
    /\ self = [cls |-> "MarkdownParser"]
    /\ text = <<>>
    /\ token_stack = <<>>
    /\ last_pos = 0
    /\ match = NoMatch
    /\ out = <<>>
    /\ pc = "none"
    /\ err = "None"
    /\ origin = <<>>
    /\ log = <<>>
    /\ suspended = NoCall

parse_vars ==
    <<self, text, token_stack, last_pos, match, out, pc, err, origin, log, suspended>>

MarkdownInit ==
    /\ NoParse
    /\ mixed \in MixedLists
    /\ md_tokens = <<>>
    /\ md_stack = <<>>
    /\ md_event = [kind |-> "none"]
    /\ md_pc = "new"

\* MarkdownParser(mixed)
MarkdownConstruct ==
    /\ md_pc = "new"
    /\ md_tokens' = final_tokens(mixed)
    /\ md_pc' = IF InitRaises(md_tokens') THEN "error" ELSE "scan"
    /\ UNCHANGED <<parse_vars, mixed, md_stack, md_event>>

\* one iteration of the loop of parse
MarkdownMatch ==
    /\ md_pc = "scan"
    /\ \E m \in Matches(md_tokens) :
          LET step == MarkdownIteration(md_tokens, md_stack, m)
          IN  /\ Len(step.data) <= MaxDepth
              /\ md_event' = step
              /\ md_stack' = step.data
              /\ md_pc' = IF step.kind = "raised" THEN "error" ELSE "scan"
    /\ UNCHANGED <<parse_vars, mixed, md_tokens>>

MarkdownNext ==
    \/ MarkdownConstruct
    \/ MarkdownMatch

MarkdownSpec == MarkdownInit /\ [][MarkdownNext]_vars

(***************************************************************************)
(* Properties.  log[k] holds what the k-th iteration of the loop found     *)
(* (its token, match type and match range) and the stack, last_pos and     *)
(* number of Segments before it; the state after it is the one before the  *)
(* next iteration, or the current one.                                     *)
(***************************************************************************)
AfterStack(k) == IF k < Len(log) THEN log[k + 1].stack ELSE token_stack

AfterLastPos(k) == IF k < Len(log) THEN log[k + 1].last_pos ELSE last_pos

\* (the Segment of the text left at the end of the scan is no iteration's)
AfterNout(k) ==
    IF k < Len(log) THEN log[k + 1].nout
    ELSE Cardinality({s \in DOMAIN origin : origin[s].kind # "final"})

Top(stack) == stack[Len(stack)]

HasOpener(e) == \E j \in DOMAIN e.stack : e.stack[j] = e.token

IsText(o) == o.kind \in {"text", "final"}

\* the match of log entry e lies in the input range of literal-text Segment s
InsideText(e, s) ==
    /\ IsText(origin[s])
    /\ origin[s].from <= e.start
    /\ e.end <= origin[s].to

\* C1: an end-match whose token has no opener on the stack never raises: it
\* leaves the stack, last_pos and the Segments as they are, and its text is
\* part of a later literal-text Segment.
C1_UnmatchedEndIsLiteral ==
    \A k \in DOMAIN log :
        (log[k].match_type = "end" /\ ~HasOpener(log[k])) =>
            /\ log[k].kind \in {"notfound", "skip"}
            /\ AfterStack(k) = log[k].stack
            /\ AfterLastPos(k) = log[k].last_pos
            /\ AfterNout(k) = log[k].nout
            /\ pc = "done" => \E s \in DOMAIN origin : InsideText(log[k], s)

\* C2: while the top of the stack is a skip token S, the end-match of S is
\* applied and pops S; every other match changes neither the stack, nor
\* last_pos, nor the Segments, and its text is passed through inside the
\* literal-text Segment of the skip region (verbatim by Parser, whose
\* postprocess is the identity).
C2_SkipRegionIgnoresMatches ==
    \A k \in DOMAIN log :
        LET e == log[k]
        IN  (e.stack # <<>> /\ tokens[Top(e.stack)].skip) =>
              IF e.token = Top(e.stack) /\ e.match_type = "end"
              THEN /\ e.kind = "end"
                   /\ AfterStack(k) = SubSeq(e.stack, 1, Len(e.stack) - 1)
              ELSE /\ e.kind = "skip"
                   /\ AfterStack(k) = e.stack
                   /\ AfterLastPos(k) = e.last_pos
                   /\ AfterNout(k) = e.nout
                   /\ pc = "done" =>
                        \E s \in DOMAIN origin :
                            /\ InsideText(e, s)
                            /\ origin[s].stack = e.stack
                            /\ self.cls = "Parser" =>
                                 Slice(out[s].text.s, e.start - origin[s].from,
                                       e.end - origin[s].from)
                                   = Slice(text, e.start, e.end)

\* a start-match of the skip token itself was ignored inside its own region
C2_Witness ==
    /\ pc = "done"
    /\ \E k \in DOMAIN log :
           /\ log[k].kind = "skip"
           /\ log[k].match_type = "start"
           /\ log[k].token = Top(log[k].stack)

RECURSIVE ConcatText(_)
ConcatText(segments) ==
    IF segments = <<>> THEN <<>>
    ELSE segments[1].text.s \o ConcatText(Tail(segments))

\* C3 as stated: the texts of the Segments, concatenated, are the input
\* (for Parser, whose postprocess is the identity).
C3_ConcatenationIsInput ==
    (pc = "done" /\ self.cls = "Parser") => ConcatText(out) = text

SegmentRanges == {<<origin[k].from, origin[k].to>> : k \in DOMAIN origin}

AppliedDelimiters ==
    {<<log[k].start, log[k].end>> : k \in {j \in DOMAIN log : log[j].kind \in {"start", "end"}}}

AllRanges == SegmentRanges \cup AppliedDelimiters

RangeEnds == {r[2] : r \in AllRanges} \cup {0}

\* how far the input has been consumed
Frontier ==
    IF pc = "done" THEN Len(text)
    ELSE IF pc = "scan" THEN last_pos
    ELSE CHOOSE n \in RangeEnds : \A m \in RangeEnds : m <= n

\* C3, amended: the input ranges of the Segments and the delimiters of the
\* applied start- and end-matches partition the consumed part of the input
\* (all of it once the parse is done), the Segments in input order; the text
\* of a literal-text Segment is the postprocess of its range, and that of a
\* single token's Segment is its range unless the token sets `text`.
C3_Partition ==
    /\ Len(origin) = Len(out)
    /\ \A i \in 0..(Frontier - 1) :
           Cardinality({r \in AllRanges : r[1] <= i /\ i < r[2]}) = 1
    /\ \A r \in AllRanges : r[1] < r[2] /\ r[2] <= Frontier
    /\ \A j, k \in DOMAIN origin : j < k => origin[j].to <= origin[k].from
    /\ \A k \in DOMAIN origin :
           IF IsText(origin[k])
           THEN out[k].text =
                    Str(postprocess(self.cls, Slice(text, origin[k].from, origin[k].to)))
           ELSE "text" \notin DOMAIN tokens[origin[k].token].params =>
                    out[k].text = Str(Slice(text, origin[k].from, origin[k].to))

\* a finished parse with an applied pair of delimiters around a Segment
C3_Witness ==
    /\ pc = "done"
    /\ \E j, k \in DOMAIN log :
           /\ log[j].kind = "start" /\ log[k].kind = "end"
           /\ \E s \in DOMAIN origin :
                  origin[s].from = log[j].end /\ origin[s].to = log[k].start

\* the attributes of the tokens of a stack, stated key by key: every key of
\* any of the tokens, with the value of the innermost token that sets it
Innermost(stack, key) ==
    CHOOSE j \in DOMAIN stack :
        /\ key \in DOMAIN tokens[stack[j]].params
        /\ \A i \in DOMAIN stack : key \in DOMAIN tokens[stack[i]].params => i <= j

MergedAttrs(stack) ==
    [key \in UNION {DOMAIN tokens[stack[j]].params : j \in DOMAIN stack} |->
        tokens[stack[Innermost(stack, key)]].params[key]]

Without(d, key) == [k \in (DOMAIN d) \ {key} |-> d[k]]

\* C4: a literal-text Segment carries the attributes of all the tokens open
\* when it is emitted; where several of them set a key, the innermost one's
\* value.
C4_TextCarriesMergedAttrs ==
    \A k \in DOMAIN out :
        IsText(origin[k]) => out[k].params = Without(MergedAttrs(origin[k].stack), "text")

\* text inside two different open tokens that both set `color`
C4_Witness ==
    \E k \in DOMAIN out :
        /\ IsText(origin[k])
        /\ Len(origin[k].stack) = 2
        /\ origin[k].stack[1] # origin[k].stack[2]
        /\ "color" \in DOMAIN tokens[origin[k].stack[1]].params
        /\ "color" \in DOMAIN tokens[origin[k].stack[2]].params
        /\ out[k].params["color"] = tokens[origin[k].stack[2]].params["color"]
        /\ DOMAIN out[k].params = {"color", "is_bold"}

\* C5: the text preceding an applied match is emitted with the attributes of
\* the stack before the match changes it; so when the scan applied exactly
\* the start-match and then the end-match of one token T, the Segments of the
\* text between the two carry T's attributes and the others carry none.
C5_PrecedingUsesStackBefore ==
    /\ \A k \in DOMAIN log :
           LET e == log[k]
           IN  (e.kind \in {"start", "end", "single"} /\ e.start > e.last_pos) =>
                 /\ origin[e.nout + 1].kind = "text"
                 /\ origin[e.nout + 1].from = e.last_pos
                 /\ origin[e.nout + 1].to = e.start
                 /\ out[e.nout + 1].params = Without(MergedAttrs(e.stack), "text")
    /\ (pc = "done" /\ Len(log) = 2 /\ log[1].kind = "start" /\ log[2].kind = "end"
          /\ log[1].token = log[2].token) =>
           \A s \in DOMAIN out :
               out[s].params =
                   IF log[1].end <= origin[s].from /\ origin[s].to <= log[2].start
                   THEN tokens[log[1].token].params
                   ELSE EmptyDict

\* one applied pair with text before it, inside it and after it
C5_Witness ==
    /\ pc = "done"
    /\ Len(log) = 2 /\ log[1].kind = "start" /\ log[2].kind = "end"
    /\ log[1].token = log[2].token
    /\ Len(out) = 3
    /\ tokens[log[1].token].params # EmptyDict

\* the end pattern of token t matches at offset j of the text
EndOccursAt(t, j) == M(tokens[t].pattern_end, text, j, NoCaps, NoGroup) # <<>>

OnStack(t, stack) == \E j \in DOMAIN stack : stack[j] = t

Paired(t) == tokens[t].pattern_end # NoPattern

\* C6: the start pattern of a paired token matches only where its end
\* pattern matches further on in the text, and a token whose end pattern
\* matches nowhere after the first character is never pushed and no Segment
\* is emitted under it; so a text in which no end pattern matches after the
\* first character (such as '**a' for a bold token) is parsed without an
\* error, by paired tokens into one plain Segment holding all of it.
C6_UnclosedOpenerIsPlainText ==
    /\ \A k \in DOMAIN log :
           log[k].match_type = "start" =>
               \E j \in (log[k].end + 1)..Len(text) : EndOccursAt(log[k].token, j)
    /\ \A t \in DOMAIN tokens :
           (Paired(t) /\ ~\E j \in 1..Len(text) : EndOccursAt(t, j)) =>
               /\ ~OnStack(t, token_stack)
               /\ \A k \in DOMAIN origin : ~OnStack(t, origin[k].stack)
    /\ (\A t \in DOMAIN tokens : Paired(t) => ~\E j \in 1..Len(text) : EndOccursAt(t, j)) =>
           /\ err # "IndexError"
           /\ (pc = "done" /\ text # <<>> /\ \A t \in DOMAIN tokens : Paired(t)) =>
                  out = <<[text |-> Str(postprocess(self.cls, text)), params |-> EmptyDict]>>

Finals == {k \in DOMAIN origin : origin[k].kind = "final"}

\* C7: the end of the scan never raises; once the parse is done, text left
\* after last_pos is the one final Segment, with the attributes of the
\* tokens still open, and without such text there is no final Segment.
C7_TrailingTextIsOneSegment ==
    /\ pc = "raised" => match.found
    /\ pc = "done" =>
         IF last_pos < Len(text)
         THEN /\ Finals = {Len(out)}
              /\ origin[Len(out)].from = last_pos
              /\ origin[Len(out)].to = Len(text)
              /\ out[Len(out)].text =
                     Str(postprocess(self.cls, Slice(text, last_pos, Len(text))))
              /\ out[Len(out)].params = Without(MergedAttrs(token_stack), "text")
         ELSE Finals = {}
    /\ pc # "done" => Finals = {}

\* the scan ended with a token open and text after the last applied match
C7_Witness ==
    /\ pc = "done"
    /\ token_stack # <<>>
    /\ last_pos < Len(text)
    /\ out[Len(out)].params # EmptyDict

\* a MatchGroup attribute value resolved against the match of a single token
Resolved(v, t, m) ==
    IF IsMatchGroup(v) THEN get_group_value(v, tokens[t], text, m, self.groupindex) ELSE v

\* the attributes of the Segment of a single token t matched under a stack
SingleAttrs(stack, t, m) ==
    [key \in ((DOMAIN MergedAttrs(stack)) \cup (DOMAIN tokens[t].params)) \ {"text"} |->
        IF key \in DOMAIN tokens[t].params
        THEN Resolved(tokens[t].params[key], t, m)
        ELSE MergedAttrs(stack)[key]]

\* C8 as stated: the Segment emitted for a single match has the matched text
\* as its text and the stack's attributes overridden by the token's resolved
\* ones.
C8_SingleTextIsMatch ==
    \A k \in DOMAIN log :
        LET e == log[k]
        IN  e.kind = "single" =>
              /\ AfterNout(k) = e.nout + (IF e.start > e.last_pos THEN 2 ELSE 1)
              /\ out[AfterNout(k)].text = Str(Slice(text, e.start, e.end))
              /\ out[AfterNout(k)].params =
                     SingleAttrs(e.stack, e.token, origin[AfterNout(k)].match)

\* C8, amended: a single match that is not suppressed either raises while
\* its Segment is built, and then no Segment is emitted for it, or emits one
\* Segment whose text is the matched text unless the token's attributes set
\* `text` (then that value, resolved) and whose attributes are the stack's
\* overridden by the token's resolved ones.
C8_SingleSegment ==
    \A k \in DOMAIN log :
        LET e == log[k]
            before == e.nout + (IF e.start > e.last_pos THEN 1 ELSE 0)
        IN  (e.match_type = "single" /\ e.kind # "skip") =>
              IF e.kind = "raise"
              THEN /\ err = "TypeError"
                   /\ AfterNout(k) = before
                   /\ \A s \in DOMAIN origin : origin[s].kind = "single" => origin[s].to <= e.start
              ELSE /\ e.kind = "single"
                   /\ AfterNout(k) = before + 1
                   /\ origin[before + 1].kind = "single"
                   /\ origin[before + 1].from = e.start
                   /\ origin[before + 1].to = e.end
                   /\ out[before + 1].text =
                          IF "text" \in DOMAIN tokens[e.token].params
                          THEN Resolved(tokens[e.token].params["text"], e.token,
                                        origin[before + 1].match)
                          ELSE Str(Slice(text, e.start, e.end))
                   /\ out[before + 1].params =
                          SingleAttrs(e.stack, e.token, origin[before + 1].match)

\* a single token matched inside an open token that sets the same key
C8_Witness ==
    \E s \in DOMAIN origin :
        /\ origin[s].kind = "single"
        /\ origin[s].stack # <<>>
        /\ \E key \in DOMAIN tokens[origin[s].token].params :
               /\ key \in DOMAIN MergedAttrs(origin[s].stack)
               /\ MergedAttrs(origin[s].stack)[key] # tokens[origin[s].token].params[key]
               /\ out[s].params[key] = tokens[origin[s].token].params[key]

InSkipRegion(stack) == stack # <<>> /\ tokens[Top(stack)].skip

\* C9: MarkdownParser emits the literal text of a skip region unchanged and
\* every other literal text with each run of spaces collapsed to one space.
C9_SkipRegionKeepsSpaces ==
    self.cls = "MarkdownParser" =>
        \A k \in DOMAIN out :
            IsText(origin[k]) =>
                out[k].text =
                    Str(IF InSkipRegion(origin[k].stack)
                        THEN Slice(text, origin[k].from, origin[k].to)
                        ELSE CleanWhitespace(Slice(text, origin[k].from, origin[k].to)))

Transformed(func, value) == IF func = NoFunc THEN value ELSE FuncApply(func, value)

\* C10: resolving a MatchGroup never raises, and its value is the transform
\* (if any) of the captured text, or of the empty string when the group is
\* not defined in the pattern or took no part in the match.
C10_MatchGroupResolves ==
    /\ err # "TypeError"
    /\ \A s \in DOMAIN origin :
           origin[s].kind = "single" =>
               \A key \in DOMAIN tokens[origin[s].token].params :
                   LET v == tokens[origin[s].token].params[key]
                       name == tokens[origin[s].token].name \o "_" \o v.group
                       caps == origin[s].match.caps
                   IN  IsMatchGroup(v) =>
                         (IF key = "text" THEN out[s].text ELSE out[s].params[key])
                           = Transformed(v.func,
                               IF name \in self.groupindex /\ name \in DOMAIN caps
                               THEN Str(Slice(text, caps[name][1], caps[name][2]))
                               ELSE Str(<<>>))

IsPrefix(a, b) == Len(a) <= Len(b) /\ SubSeq(b, 1, Len(a)) = a

\* what a call has yielded is what the same call yields up to there when it
\* is the only one, and it ends as that one ends
AsAlone(call) ==
    LET alone == parse(self, call.text)
    IN  /\ IsPrefix(call.out, alone.out)
        /\ call.pc # "scan" =>
               /\ call.out = alone.out
               /\ call.pc = alone.pc
               /\ call.err = alone.err

\* C11: of two calls of parse on one Parser, pulled from in any order and as
\* far as the consumer likes, each yields the Segments it yields when it is
\* the only call, and the Parser (its regex, its group table and its tokens
\* with their attributes) stays as it was constructed.
C11_CallsAreIndependent ==
    /\ self = ParserInit("Parser", LinkTokens)
    /\ AsAlone(Running)
    /\ AsAlone(suspended)

\* both calls are in the middle of their scans, with different tokens open
C11_Witness ==
    /\ pc = "scan" /\ suspended.pc = "scan"
    /\ out # <<>> /\ suspended.out # <<>>
    /\ token_stack # <<>> /\ suspended.token_stack # <<>>
    /\ token_stack # suspended.token_stack
    /\ text # suspended.text

\* C12: two calls of parse with the same text that have both ended have
\* yielded the same (text, params) pairs and ended the same way, and so has
\* a call on a Parser built again from the same token definitions.
C12_SameInputSameOutput ==
    /\ (suspended.text = text /\ pc # "scan" /\ suspended.pc # "scan") =>
           /\ out = suspended.out
           /\ pc = suspended.pc
           /\ err = suspended.err
    /\ pc # "scan" =>
           LET again == parse(ParserInit(self.cls, self.tokens), text)
           IN  out = again.out /\ pc = again.pc /\ err = again.err

\* two calls with the same text are done, with attributed Segments
C12_Witness ==
    /\ suspended.text = text
    /\ pc = "done" /\ suspended.pc = "done"
    /\ Len(out) >= 2
    /\ \E k \in DOMAIN out : out[k].params # EmptyDict

\* C21: last_pos never decreases and stays within the text; a literal-text
\* Segment covers a non-empty range that begins at last_pos and ends where
\* the match of its iteration starts (at the end of the text for the Segment
\* of the text left over); the ranges of the Segments, in the order they are
\* yielded, are disjoint and strictly increasing.
C21_SegmentsInInputOrder ==
    /\ 0 <= last_pos /\ last_pos <= Len(text)
    /\ \A k \in DOMAIN log :
          /\ 0 <= log[k].last_pos
          /\ log[k].last_pos <= AfterLastPos(k)
          /\ AfterLastPos(k) <= Len(text)
    /\ Len(out) = Len(origin)
    /\ \A s \in DOMAIN origin :
          /\ origin[s].from <= origin[s].to
          /\ origin[s].kind = "text" =>
                /\ origin[s].from < origin[s].to
                /\ \E k \in DOMAIN log :
                      /\ log[k].nout = s - 1
                      /\ log[k].last_pos = origin[s].from
                      /\ log[k].start = origin[s].to
          /\ origin[s].kind = "final" =>
                /\ origin[s].from < origin[s].to
                /\ s = Len(origin)
                /\ origin[s].from = last_pos
                /\ origin[s].to = Len(text)
    /\ \A s, t \in DOMAIN origin :
          s < t => /\ origin[s].to <= origin[t].from
                   /\ origin[s].from < origin[t].from

\* a finished scan that yielded text before a match, the Segment of a single
\* token and the text left over
C21_Witness ==
    /\ pc = "done"
    /\ \E s \in DOMAIN origin : origin[s].kind = "text"
    /\ \E s \in DOMAIN origin : origin[s].kind = "single"
    /\ \E s \in DOMAIN origin : origin[s].kind = "final"

(***************************************************************************)
(* Properties of the TokenStack (Spec).                                    *)
(***************************************************************************)
\* the iterations that called remove_token: the end-matches not suppressed
Removals == {k \in DOMAIN log : log[k].match_type = "end" /\ log[k].kind # "skip"}

\* C15: remove_token(T) on a stack that holds T returns true and removes the
\* occurrence of T nearest the top, leaving the other entries in their order;
\* on a stack that does not hold T it returns false and leaves the stack as
\* it is.
C15_RemoveTokenRemovesNearest ==
    \A k \in Removals :
        LET before == log[k].stack
            at == {i \in DOMAIN before : before[i] = log[k].token}
        IN  IF at # {}
            THEN /\ log[k].kind = "end"
                 /\ \E i \in at :
                       /\ \A j \in at : j <= i
                       /\ Len(AfterStack(k)) = Len(before) - 1
                       /\ \A j \in DOMAIN AfterStack(k) :
                             AfterStack(k)[j] = before[IF j < i THEN j ELSE j + 1]
            ELSE /\ log[k].kind = "notfound"
                 /\ AfterStack(k) = before

\* the iterations among the first n whose start-match was applied and is not
\* yet closed, in their order; an applied end-match closes the latest of them
\* that has its token
RECURSIVE OpenStarts(_)
OpenStarts(n) ==
    IF n = 0 THEN <<>>
    ELSE LET open == OpenStarts(n - 1)
             same == {i \in DOMAIN open : log[open[i]].token = log[n].token}
         IN  IF log[n].kind = "start" THEN Append(open, n)
             ELSE IF log[n].kind = "end" /\ same # {}
             THEN RemoveAt(open, CHOOSE i \in same : \A j \in same : j <= i)
             ELSE open

\* C16: the TokenStack is empty when a scan begins; after every iteration it
\* holds, in opening order, exactly the tokens of the applied start-matches
\* that no applied end-match has closed; so at the end of a scan in which
\* every applied start-match was closed it is empty.
C16_StackHoldsOpenTokens ==
    /\ log = <<>> => token_stack = <<>>
    /\ log # <<>> => log[1].stack = <<>>
    /\ \A n \in DOMAIN log :
          AfterStack(n) = [i \in DOMAIN OpenStarts(n) |-> log[OpenStarts(n)[i]].token]
    /\ (pc = "done" /\ OpenStarts(Len(log)) = <<>>) => token_stack = <<>>

\* a finished scan that held two different open tokens, closed both and left
\* the stack empty
C16_Witness ==
    /\ pc = "done"
    /\ token_stack = <<>>
    /\ \E k \in DOMAIN log :
          Len(log[k].stack) = 2 /\ log[k].stack[1] # log[k].stack[2]

\* C18: an iteration on a single-token match leaves the TokenStack as it is,
\* suppressed or not; an applied start-match pushes its token, an applied
\* end-match removes one entry of its token, and no other iteration changes
\* the stack.
C18_OnlyStartAndEndChangeStack ==
    \A k \in DOMAIN log :
        LET before == log[k].stack
            after == AfterStack(k)
        IN  /\ log[k].match_type = "single" => after = before
            /\ log[k].kind = "start" => after = Append(before, log[k].token)
            /\ log[k].kind = "end" =>
                  /\ Len(after) = Len(before) - 1
                  /\ \E i \in DOMAIN before :
                        before[i] = log[k].token /\ after = RemoveAt(before, i)
            /\ log[k].kind \notin {"start", "end"} => after = before

\* a single-token match was applied between the start-match and the
\* end-match of an open token
C18_Witness ==
    \E k \in DOMAIN log :
        /\ log[k].kind = "single"
        /\ log[k].stack # <<>>
        /\ \E j \in DOMAIN log : j > k /\ log[j].kind = "end"

\* the positions of the skip tokens in a stack
SkipEntries(data) == {i \in DOMAIN data : tokens[data[i]].skip}

\* C20: a skip token on the TokenStack is its top entry, so the stack holds
\* at most one; the iterations made while it is on top leave the stack as it
\* is, except the applied end-match of the skip token itself, which pops it.
C20_SkipTokenStaysOnTop ==
    /\ SkipEntries(token_stack) \subseteq {Len(token_stack)}
    /\ \A k \in DOMAIN log :
          LET before == log[k].stack
          IN  /\ SkipEntries(before) \subseteq {Len(before)}
              /\ SkipEntries(before) # {} =>
                    IF log[k].token = before[Len(before)] /\ log[k].match_type = "end"
                    THEN /\ log[k].kind = "end"
                         /\ AfterStack(k) = SubSeq(before, 1, Len(before) - 1)
                    ELSE /\ log[k].kind = "skip"
                         /\ AfterStack(k) = before

\* inside a skip region opened under another open token a start-match was
\* suppressed, and the region was closed later
C20_Witness ==
    \E k \in DOMAIN log :
        /\ Len(log[k].stack) = 2
        /\ SkipEntries(log[k].stack) = {2}
        /\ log[k].match_type = "start"
        /\ log[k].kind = "skip"
        /\ \E j \in DOMAIN log :
              j > k /\ log[j].kind = "end" /\ log[j].token = log[k].stack[2]

(***************************************************************************)
(* Properties of the Markdown layer (MarkdownSpec).                        *)
(***************************************************************************)
\* the positions of the group the constructor created
Created == {k \in DOMAIN md_tokens : md_tokens[k].object = "created"}

\* C13: the MarkdownGroup that MarkdownParser creates for the MarkdownTags of
\* its list has a name that no other token of the resulting list has, also
\* when the list holds an ordinary Token named 'markdown' (the name is
\* 'markdown' followed by as many 'G' as the loop appended).
C13_CreatedGroupNameIsUnique ==
    md_pc # "new" =>
        \A k \in Created :
            \A j \in DOMAIN md_tokens : j # k => md_tokens[j].name # md_tokens[k].name

(***************************************************************************)
(* Properties of construction (ConstructSpec).                             *)
(***************************************************************************)
\* the group names the patterns of a token define
TokenGroupNames(t) ==
    GroupNames(t.pattern_start) \cup
    (IF t.pattern_end # NoPattern THEN GroupNames(t.pattern_end) ELSE {})

\* the pattern of the token and match type of a log entry matches the text
\* over the entry's range
Attributed(e) ==
    LET t == tokens[e.token]
        pattern == IF e.match_type = "end" THEN t.pattern_end ELSE t.pattern_start
        rs == M(pattern, text, e.start, NoCaps, NoGroup)
    IN  \E k \in DOMAIN rs : rs[k].e = e.end

Constructed == pc # "new" /\ err # "re.error"

\* C14: a collision of token names or of derived group names raises when the
\* Parser is constructed, before anything is scanned; in a constructed Parser
\* no two tokens define one group name, every name of the group table is the
\* start or end group of exactly the token it stands for, and every match of
\* a scan is a match of the pattern of the token it is attributed to.
C14_CollisionsRaiseAtConstruction ==
    /\ err = "re.error" => out = <<>> /\ log = <<>> /\ pc = "raised"
    /\ Constructed =>
          /\ \A j, k \in DOMAIN tokens :
                j # k => TokenGroupNames(tokens[j]) \cap TokenGroupNames(tokens[k]) = {}
          /\ \A g \in DOMAIN self.groups :
                \A k \in DOMAIN tokens :
                    g \in {tokens[k].group_start, tokens[k].group_end}
                        <=> self.groups[g].token = k
          /\ \A k \in DOMAIN log : Attributed(log[k])
          /\ err \in {"None", "IndexError", "TypeError"}

\* construction raised for a list of tokens of different names, two of which
\* derive one group name
C14_Witness ==
    /\ err = "re.error"
    /\ \A j, k \in DOMAIN tokens : j # k => tokens[j].name # tokens[k].name
    /\ \E j, k \in DOMAIN tokens :
          j # k /\ TokenGroupNames(tokens[j]) \cap TokenGroupNames(tokens[k]) # {}

\* the last match was one of a MarkdownGroup
GroupMatched ==
    /\ md_event.kind # "none"
    /\ md_tokens[md_event.match.group].type = "MarkdownGroup"

\* the top of the stack before the last match, "" on the empty stack
TopBefore ==
    IF md_event.before = <<>> THEN "" ELSE md_event.before[Len(md_event.before)]

Kept == SelectSeq(mixed, LAMBDA o : ~IsTag(o))

\* the token a parser of md_tokens attributes the first match in t to
FirstMatched(t) ==
    LET parser == MarkdownParserOf(md_tokens)
    IN  get_matched_token(parser, Search(parser.regex, t, 0)).token

=============================================================================
